---- MODULE Spec2Model ----
(***************************************************************************)
(* A model of the chat orchestrator of gonzalo123/multi.ia: the session    *)
(* controller (src/src/main.py: start_chat, handle_message, on_chat_end),  *)
(* the tool-call hooks (LoggingHooks) and the streaming relay decorator    *)
(* (src/src/modules/cl.py: stream_to_step).                                *)
(*                                                                         *)
(* Scheduling is asyncio's: one event loop, a coroutine runs without       *)
(* interruption from one await to the next.  Every action below is one     *)
(* such run-to-the-next-await step of a handler or of a generation task;   *)
(* pc[t] names the await the task t is suspended at.  Task.cancel() only   *)
(* marks the task (must_cancel); CancelledError is thrown into it when it  *)
(* is next resumed.                                                        *)
(*                                                                         *)
(* The orchestrator agent (agent.stream_async) and the specialist's inner  *)
(* agent are opaque: what they yield next is chosen by \E.                 *)
(***************************************************************************)
EXTENDS Integers, Sequences, FiniteSets, TLC

\* ---------------------------------------------------------------- bounds
\* The inputs the environment feeds a session: inbound messages, events the
\* orchestrator stream yields, tool calls it makes, events a specialist yields.
MaxInputs == 4

\* The inbound messages among them.
MaxTasks == 2

Tasks == 1..MaxTasks

\* Python's None
None == 0

\* ------------------------------------------------------------- constants
\* Strings are sequences of characters, so that += is \o and "" is << >>.
EmptyStr == << >>
CompletedMarker == << "COMPLETED" >>
Newline == << "NL" >>
SystemRecord == [role |-> "system", content |-> << "persona" >>]

\* The tools of the orchestrator that the model exercises: one specialist
\* wrapped by stream_to_step and one plain tool.
RelayedTools == {"weather_assistant"}
PlainTools == {"calculator"}
ToolNames == RelayedTools \cup PlainTools

\* Texts the k-th event of a specialist stream may carry as its delta: none,
\* or a text of its own (so that order and repetition show in a concatenation).
DeltaTexts(k) == {EmptyStr, << "d", k >>}

\* Roles of the message records the agent framework emits.
MessageRoles == {"assistant", "user"}

VARIABLES
    started,          \* start_chat has run
    should_stop,      \* session key "should_stop": "None" (unset) or "False"
    current_task,     \* session key "current_task"
    task,             \* session key "task": a task id, or None
    message_history,  \* session key "message_history"
    step_table,       \* session keys "step_<tool name>": a step id, or None
    steps,            \* every cl.Step created so far, by id
    pc,               \* per task: the await it is suspended at
    must_cancel,      \* per task: cancel() was called on it
    handler,          \* per task: its handle_message invocation
    msg,              \* per task: the tokens of its outbound cl.Message
    produced,         \* per task: the events agent.stream_async has yielded
    call,             \* per task: the locals of its tool call in progress
    inputs,           \* the inputs the environment has fed so far
    ENVIRONMENT,      \* settings.ENVIRONMENT
    FAKE_USER,        \* settings.FAKE_USER
    cl_User,          \* what the name cl.User is bound to
    auth_call,        \* the last call of header_auth_callback and its outcome
    leaf_call,        \* the last call of a leaf tool and its outcome
    DEBUG,            \* settings.DEBUG
    query             \* per task: the question passed to agent.stream_async

vars == << started, should_stop, current_task, task, message_history,
           step_table, steps, pc, must_cancel, handler, msg, produced, call,
           inputs, ENVIRONMENT, FAKE_USER, cl_User, auth_call, leaf_call,
           DEBUG, query >>

sessionVars == << started, should_stop, current_task, task, message_history >>
stepVars == << step_table, steps >>
chatVars == << sessionVars, stepVars, pc, must_cancel, handler, msg, produced,
               call, inputs, DEBUG, query >>
authVars == << ENVIRONMENT, FAKE_USER, cl_User, auth_call >>
leafVars == << leaf_call >>

NoCall == [tool |-> "", step |-> None, ref |-> None, acc |-> EmptyStr,
           flog |-> << >>, ylog |-> << >>]

\* asyncio.Task.done()
Terminal == {"done", "cancelled", "failed"}
done(t) == pc[t] \in Terminal

\* The content of the inbound message of task t; of its i-th stream event.
Question(t) == << "q", t >>
EventText(t, i) == << "e", t, i >>

\* os.getenv(name, False): the False default, or the string of the variable
Unset == [set |-> FALSE, value |-> ""]
Getenv(v) == [set |-> TRUE, value |-> v]

\* No call of header_auth_callback, of a leaf tool, made yet
NoUser == [identifier |-> "", role |-> "", provider |-> ""]
NoHeaders == [jwt |-> "", userid |-> ""]
NoAuthCall == [headers |-> NoHeaders, outcome |-> "", user |-> NoUser]
NoLeafCall == [tool |-> "", args |-> << >>, raised |-> "", fetched |-> FALSE,
               value |-> << >>]

\* The process as the chat session finds it: the settings of a deployment,
\* cl.User the class chainlit defines, no authentication or leaf-tool call
\* under way.
AuthIdle ==
    /\ ENVIRONMENT = "production"
    /\ FAKE_USER = Unset
    /\ cl_User = "class"
    /\ auth_call = NoAuthCall

LeafIdle == leaf_call = NoLeafCall

\* DEBUG = os.getenv('DEBUG', 'False') == 'True'
DebugSetting(v) == (IF v.set THEN v.value ELSE "False") = "True"

\* The deployment's setting: DEBUG is not in the environment
DebugDefault == DEBUG = DebugSetting(Unset)

\* No question passed to the agent yet
NoQuery == << >>

\* The chat session before @cl.on_chat_start
ChatInit ==
    /\ started = FALSE
    /\ should_stop = "None"
    /\ current_task = None
    /\ task = None
    /\ message_history = << >>
    /\ step_table = [n \in ToolNames |-> None]
    /\ steps = << >>
    /\ pc = [t \in Tasks |-> "none"]
    /\ must_cancel = [t \in Tasks |-> FALSE]
    /\ handler = [t \in Tasks |-> "none"]
    /\ msg = [t \in Tasks |-> << >>]
    /\ produced = [t \in Tasks |-> << >>]
    /\ call = [t \in Tasks |-> NoCall]
    /\ inputs = 0
    /\ query = [t \in Tasks |-> NoQuery]

Init == ChatInit /\ DebugDefault /\ AuthIdle /\ LeafIdle

\* Whether the environment may feed one more input; Fed counts it.
MoreInput == inputs < MaxInputs
Fed == inputs' = inputs + 1

\* --------------------------------------------------- session controller

\* @cl.on_chat_start
start_chat ==
    /\ ~started
    /\ started' = TRUE
    /\ should_stop' = "False"
    /\ current_task' = None
    /\ message_history' = << SystemRecord >>
    /\ UNCHANGED << authVars, leafVars, DEBUG, query, task, stepVars, pc, must_cancel, handler, msg, produced, call, inputs >>

\* task.cancel(): a request, honoured when the task is next resumed
Cancel(mc, t) == [mc EXCEPT ![t] = TRUE]

CancelIfRunning(mc, t) ==
    IF t /= None /\ ~done(t) THEN Cancel(mc, t) ELSE mc

\* @cl.on_chat_end
on_chat_end ==
    /\ started
    /\ must_cancel' = CancelIfRunning(CancelIfRunning(must_cancel, current_task), task)
    /\ UNCHANGED << authVars, leafVars, DEBUG, query, sessionVars, stepVars, pc, handler, msg, produced, call, inputs >>

\* message_history.append({"role": "user", "content": message.content})
UserRecord(t) == [role |-> "user", content |-> Question(t)]

\* @cl.on_message, up to its "await task": the user record is appended, the
\* task is created (not yet run) and stored under the session key "task".
handle_message(t) ==
    /\ started
    /\ MoreInput
    /\ Fed
    /\ pc[t] = "none"
    /\ \A u \in Tasks : u < t => pc[u] /= "none"
    /\ message_history' = Append(message_history, UserRecord(t))
    /\ pc' = [pc EXCEPT ![t] = "created"]
    /\ task' = t
    /\ handler' = [handler EXCEPT ![t] = "awaiting"]
    /\ UNCHANGED << authVars, leafVars, DEBUG, query, started, should_stop, current_task, stepVars, must_cancel,
                    msg, produced, call >>

\* handle_message resumed from "await task": CancelledError is caught and
\* logged, any other exception of the task leaves the handler.
\* A faulty variant: the await is not guarded by except asyncio.CancelledError
AwaitOutcome_NoCatch(state) == IF state = "done" THEN "returned" ELSE "raised"

\* A faulty variant: the await is guarded by a bare except
AwaitOutcome_CatchAll(state) == "returned"

AwaitOutcome(state) ==
    CASE state = "done" -> "returned"
      [] state = "cancelled" -> "returned"
      [] state = "failed" -> "raised"

\* The task t ends in the given state, and the handle_message awaiting it is
\* resumed.  (The loop resumes the handler in a later step of its own, which
\* touches nothing but the handler; the model takes the two steps as one.)
TaskEnds(t, state) ==
    /\ pc' = [pc EXCEPT ![t] = state]
    /\ handler' = [handler EXCEPT ![t] = AwaitOutcome(state)]

\* ------------------------------------------------------ generation task

\* A task may take a step of its own code only when no cancellation is pending.
Runs(t, at) == pc[t] = at /\ ~must_cancel[t]

\* A faulty variant: the unwinding task clears what it had streamed
task_cancelled_Rollback(t) ==
    /\ pc[t] \notin Terminal \cup {"none"}
    /\ must_cancel[t]
    /\ TaskEnds(t, "cancelled")
    /\ call' = [call EXCEPT ![t] = NoCall]
    /\ msg' = [msg EXCEPT ![t] = << >>]
    /\ UNCHANGED << authVars, leafVars, DEBUG, query, sessionVars, stepVars, must_cancel, produced, inputs >>

\* CancelledError thrown into the task at the await it is suspended at (or
\* before its first step): nothing in user_task, the hooks or the relay
\* catches it, so the task unwinds and ends cancelled.
task_cancelled(t) ==
    /\ pc[t] \notin Terminal \cup {"none"}
    /\ must_cancel[t]
    /\ TaskEnds(t, "cancelled")
    /\ call' = [call EXCEPT ![t] = NoCall]
    /\ UNCHANGED << authVars, leafVars, DEBUG, query, sessionVars, stepVars, must_cancel, msg, produced, inputs >>

\* user_task: msg = cl.Message(content=""); await msg.send()
user_task_start(t) ==
    /\ Runs(t, "created")
    /\ pc' = [pc EXCEPT ![t] = "send"]
    /\ UNCHANGED << authVars, leafVars, DEBUG, query, sessionVars, stepVars, must_cancel, handler, msg, produced, call, inputs >>

\* extra, the text user_task adds to the question in debug mode
DebugSuffix == << "NL", "extra" >>

\* A faulty variant: the suffix is added whatever the flag
BuildQuestion_Always(content, debug) == content \o DebugSuffix

\* question = f"{question}\n{extra}" if debug else question
BuildQuestion(content, debug) ==
    IF debug THEN content \o DebugSuffix ELSE content

\* msg.send() returned; the question is built; agent.stream_async(question)
\* is entered
user_task_sent(t) ==
    /\ Runs(t, "send")
    /\ query' = [query EXCEPT ![t] = BuildQuestion(Question(t), DEBUG)]
    /\ pc' = [pc EXCEPT ![t] = "next"]
    /\ UNCHANGED << authVars, leafVars, DEBUG, sessionVars, stepVars, must_cancel, handler, msg, produced, call, inputs >>

\* The token user_task streams for an event of the given kind
StreamToken(t, i, kind) ==
    IF kind = "data" THEN EventText(t, i) ELSE Newline

\* msg.stream_token(token): the token is added at the end of the message
\* A faulty variant: the token is put before the tokens already streamed
Forward_Front(m, token) == << token >> \o m

Forward(m, token) == Append(m, token)

\* A faulty variant: a message event is forwarded but not recorded
AfterEvent_MessageAsData(kind) ==
    IF kind \in {"data", "message"} THEN "tok_data" ELSE "next"

\* The await user_task reaches after receiving an event
AfterEvent(kind) ==
    CASE kind = "data" -> "tok_data"
      [] kind = "message" -> "tok_msg"
      [] OTHER -> "next"

\* The stream yields an event: "data" in event / "message" in event / else.
\* stream_token adds the token to the message before it awaits the emit.
stream_event(t) ==
    /\ Runs(t, "next")
    /\ MoreInput
    /\ Fed
    /\ \E ev \in ([kind : {"data", "other"}, role : {""}]
                    \cup [kind : {"message"}, role : MessageRoles]) :
         LET i == Len(produced[t]) + 1 IN
         /\ produced' = [produced EXCEPT ![t] = Append(@, ev)]
         /\ msg' = [msg EXCEPT ![t] =
                      IF ev.kind \in {"data", "message"}
                      THEN Forward(@, StreamToken(t, i, ev.kind)) ELSE @]
         /\ pc' = [pc EXCEPT ![t] = AfterEvent(ev.kind)]
    /\ UNCHANGED << authVars, leafVars, DEBUG, query, sessionVars, stepVars, must_cancel, handler, call >>

\* await msg.stream_token(str(event["data"])) returned
data_streamed(t) ==
    /\ Runs(t, "tok_data")
    /\ pc' = [pc EXCEPT ![t] = "next"]
    /\ UNCHANGED << authVars, leafVars, DEBUG, query, sessionVars, stepVars, must_cancel, handler, msg, produced, call, inputs >>

\* event["message"] of the i-th event of task t
MessageRecord(t, i) ==
    [role |-> produced[t][i].role, content |-> EventText(t, i)]

\* A faulty variant: the record is inserted at the front
HistoryAppend_Front(h, rec) == << rec >> \o h

HistoryAppend(h, rec) == Append(h, rec)

\* await msg.stream_token("\n") returned; message_history.append(event["message"])
message_streamed(t) ==
    /\ Runs(t, "tok_msg")
    /\ message_history' =
         HistoryAppend(message_history, MessageRecord(t, Len(produced[t])))
    /\ pc' = [pc EXCEPT ![t] = "next"]
    /\ UNCHANGED << authVars, leafVars, DEBUG, query, started, should_stop, current_task, task, stepVars,
                    must_cancel, handler, msg, produced, call, inputs >>

\* The stream is exhausted: await msg.update()
stream_exhausted(t) ==
    /\ Runs(t, "next")
    /\ pc' = [pc EXCEPT ![t] = "update"]
    /\ UNCHANGED << authVars, leafVars, DEBUG, query, sessionVars, stepVars, must_cancel, handler, msg, produced, call, inputs >>

\* msg.update() returned: user_task returns
user_task_finished(t) ==
    /\ Runs(t, "update")
    /\ TaskEnds(t, "done")
    /\ UNCHANGED << authVars, leafVars, DEBUG, query, sessionVars, stepVars, must_cancel, msg, produced, call, inputs >>

\* The orchestrator's stream raises (a model or tool error): user_task has
\* no handler for it, the task ends with the exception.
stream_raises(t) ==
    /\ Runs(t, "next")
    /\ TaskEnds(t, "failed")
    /\ UNCHANGED << authVars, leafVars, DEBUG, query, sessionVars, stepVars, must_cancel, msg, produced, call, inputs >>

\* ------------------------------------------------------ tool-call hooks

NewStep(n, t) ==
    [tool |-> n, task |-> t, sent |-> FALSE, removed |-> FALSE, ended |-> FALSE,
     streamed |-> EmptyStr, output |-> EmptyStr, nev |-> 0]

\* The orchestrator calls tool n: LoggingHooks.before_tool creates the step
\* and awaits step.send()
before_tool(t) ==
    /\ Runs(t, "next")
    /\ MoreInput
    /\ Fed
    /\ \E n \in ToolNames :
         /\ steps' = Append(steps, NewStep(n, t))
         /\ call' = [call EXCEPT ![t] = [NoCall EXCEPT !.tool = n, !.step = Len(steps) + 1]]
    /\ pc' = [pc EXCEPT ![t] = "step_send"]
    /\ UNCHANGED << authVars, leafVars, DEBUG, query, sessionVars, step_table, must_cancel, handler, msg, produced >>

\* cl.user_session.set(f"step_{name}", step)
SetStep(tbl, n, s) == [tbl EXCEPT ![n] = s]

\* step.send() returned: the step is visible and stored in the step table
before_tool_sent(t) ==
    /\ Runs(t, "step_send")
    /\ steps' = [steps EXCEPT ![call[t].step].sent = TRUE]
    /\ step_table' = SetStep(step_table, call[t].tool, call[t].step)
    /\ pc' = [pc EXCEPT ![t] = "tool_run"]
    /\ UNCHANGED << authVars, leafVars, DEBUG, query, sessionVars, must_cancel, handler, msg, produced, call, inputs >>

\* A tool without the relay runs and returns
plain_tool_returns(t) ==
    /\ Runs(t, "tool_run")
    /\ call[t].tool \in PlainTools
    /\ pc' = [pc EXCEPT ![t] = "tool_done"]
    /\ UNCHANGED << authVars, leafVars, DEBUG, query, sessionVars, stepVars, must_cancel, handler, msg, produced, call, inputs >>

\* step = cl.user_session.get(f"step_{name}"); if step: await step.remove()
RemoveStep(ss, s) == IF s /= None THEN [ss EXCEPT ![s].removed = TRUE] ELSE ss

\* LoggingHooks.after_tool, called once the tool's generator has completed
after_tool(t) ==
    /\ Runs(t, "tool_done")
    /\ LET s == step_table[call[t].tool] IN
         /\ steps' = [RemoveStep(steps, s) EXCEPT ![call[t].step].ended = TRUE]
         /\ pc' = [pc EXCEPT ![t] = IF s /= None THEN "step_remove" ELSE "next"]
         /\ call' = [call EXCEPT ![t] = IF s /= None THEN @ ELSE NoCall]
    /\ UNCHANGED << authVars, leafVars, DEBUG, query, sessionVars, step_table, must_cancel, handler, msg, produced, inputs >>

\* step.remove() returned: after_tool returns, the agent's stream goes on
after_tool_removed(t) ==
    /\ Runs(t, "step_remove")
    /\ pc' = [pc EXCEPT ![t] = "next"]
    /\ call' = [call EXCEPT ![t] = NoCall]
    /\ UNCHANGED << authVars, leafVars, DEBUG, query, sessionVars, stepVars, must_cancel, handler, msg, produced, inputs >>

\* ------------------------------------------------ streaming relay (cl.py)

\* What a specialist yields: the events of its inner agent's stream, which
\* are dicts with or without a text delta, and the error string of its
\* except branch.
TokenEvents(k) ==
    [shape : {"delta"}, text : DeltaTexts(k)] \cup [shape : {"dict"}, text : {EmptyStr}]
\* A faulty variant: the except branch yields str(e) alone
ErrorEvent_Bare == [shape |-> "str", text |-> << "boom" >>]

\* yield f"Error in research assistant: {str(e)}"
ErrorEvent == [shape |-> "str", text |-> << "Error in research assistant: " >>]

\* isinstance(event, dict) and 'delta' in event and 'text' in delta
HasDeltaText(ev) == ev.shape = "delta"

\* if text_content and step
Relays(ev, ref) == HasDeltaText(ev) /\ ev.text /= EmptyStr /\ ref /= None

\* A faulty variant: the wrapper yields the event without its text
Yielded_NoText(ev) == [ev EXCEPT !.text = EmptyStr]

\* yield event
Yielded(ev) == ev

\* A faulty variant: the text is put before the accumulated content
Accumulate_Front(acc, text) == text \o acc

\* accumulated_content += text_content
Accumulate(acc, text) == acc \o text

\* step.output = accumulated_content if accumulated_content else "✓ Completed"
FinalOutput(acc) == IF acc /= EmptyStr THEN acc ELSE CompletedMarker

\* step = cl.user_session.get(f"step_{tool_name}"); accumulated_content = "";
\* the wrapped generator is entered and awaits its inner agent
wrapper_start(t) ==
    /\ Runs(t, "tool_run")
    /\ call[t].tool \in RelayedTools
    /\ call' = [call EXCEPT ![t].ref = step_table[call[t].tool], ![t].acc = EmptyStr]
    /\ pc' = [pc EXCEPT ![t] = "func_next"]
    /\ UNCHANGED << authVars, leafVars, DEBUG, query, sessionVars, stepVars, must_cancel, handler, msg, produced, inputs >>

\* The wrapped generator yields ev.  With a text delta and a step the wrapper
\* awaits step.stream_token(text); otherwise it yields ev downstream at once.
wrapper_event(t) ==
    /\ Runs(t, "func_next")
    /\ MoreInput
    /\ Fed
    /\ \E ev \in TokenEvents(Len(call[t].flog) + 1) :
         LET counted == [steps EXCEPT ![call[t].step].nev = @ + 1] IN
         IF Relays(ev, call[t].ref)
         THEN /\ steps' = [counted EXCEPT ![call[t].ref].streamed = @ \o ev.text]
              /\ call' = [call EXCEPT ![t].flog = Append(@, ev)]
              /\ pc' = [pc EXCEPT ![t] = "step_tok"]
         ELSE /\ steps' = counted
              /\ call' = [call EXCEPT ![t].flog = Append(@, ev),
                                      ![t].ylog = Append(@, Yielded(ev))]
              /\ UNCHANGED pc
    /\ UNCHANGED << authVars, leafVars, DEBUG, query, sessionVars, step_table, must_cancel, handler, msg, produced >>

\* step.stream_token returned: the text is accumulated and the event yielded
wrapper_token_streamed(t) ==
    /\ Runs(t, "step_tok")
    /\ LET ev == call[t].flog[Len(call[t].flog)] IN
         call' = [call EXCEPT ![t].acc = Accumulate(@, ev.text),
                              ![t].ylog = Append(@, Yielded(ev))]
    /\ pc' = [pc EXCEPT ![t] = "func_next"]
    /\ UNCHANGED << authVars, leafVars, DEBUG, query, sessionVars, stepVars, must_cancel, handler, msg, produced, inputs >>

\* The wrapped generator is exhausted, after the events in last (none, or
\* the error string of the specialist's except branch): with a step the
\* wrapper sets its output and awaits step.update(), without one it returns.
WrapperEnd(t, last) ==
    LET c == call[t] IN
    /\ call' = [call EXCEPT ![t].flog = @ \o last,
                            ![t].ylog = @ \o [i \in 1..Len(last) |-> Yielded(last[i])]]
    /\ IF c.ref /= None
       THEN /\ steps' = [steps EXCEPT ![c.ref].output = FinalOutput(c.acc)]
            /\ pc' = [pc EXCEPT ![t] = "step_update"]
       ELSE /\ pc' = [pc EXCEPT ![t] = "tool_done"]
            /\ UNCHANGED steps
    /\ UNCHANGED << authVars, leafVars, DEBUG, query, sessionVars, step_table, must_cancel, handler, msg, produced, inputs >>

\* The inner agent's stream ends
wrapper_exhausted(t) ==
    /\ Runs(t, "func_next")
    /\ WrapperEnd(t, << >>)

\* The inner agent raises: the specialist yields the error string and ends
specialist_fails(t) ==
    /\ Runs(t, "func_next")
    /\ WrapperEnd(t, << ErrorEvent >>)

\* step.update() returned: the wrapper returns
wrapper_updated(t) ==
    /\ Runs(t, "step_update")
    /\ pc' = [pc EXCEPT ![t] = "tool_done"]
    /\ UNCHANGED << authVars, leafVars, DEBUG, query, sessionVars, stepVars, must_cancel, handler, msg, produced, call, inputs >>

ToolStep(t) ==
    \/ before_tool(t)
    \/ before_tool_sent(t)
    \/ plain_tool_returns(t)
    \/ after_tool(t)
    \/ after_tool_removed(t)
    \/ wrapper_start(t)
    \/ wrapper_event(t)
    \/ wrapper_token_streamed(t)
    \/ wrapper_exhausted(t)
    \/ specialist_fails(t)
    \/ wrapper_updated(t)

TaskStep(t) ==
    \/ user_task_start(t)
    \/ user_task_sent(t)
    \/ stream_event(t)
    \/ data_streamed(t)
    \/ message_streamed(t)
    \/ stream_exhausted(t)
    \/ user_task_finished(t)
    \/ stream_raises(t)
    \/ task_cancelled(t)

Next ==
    \/ start_chat
    \/ on_chat_end
    \/ \E t \in Tasks : handle_message(t)
    \/ \E t \in Tasks : TaskStep(t)
    \/ \E t \in Tasks : ToolStep(t)

Spec == Init /\ [][Next]_vars

\* The event loop resumes a task whose cancellation was requested: while
\* some task has a cancellation to receive, one is delivered.  (A task is
\* cancelled at most once, so none of them waits for ever.)
FairSpec == Spec /\ WF_vars(\E t \in Tasks : task_cancelled(t))

\* ------------------------------------------------------- the debug flag
\* The session controller and the generation task, in a process started
\* with any DEBUG setting; the orchestrator makes no tool call.
DebugEnvs == {Unset, Getenv("True"), Getenv("False"), Getenv("true"), Getenv("1")}

DebugInit ==
    /\ ChatInit
    /\ AuthIdle
    /\ LeafIdle
    /\ \E v \in DebugEnvs : DEBUG = DebugSetting(v)

DebugNext ==
    \/ start_chat
    \/ on_chat_end
    \/ \E t \in Tasks : handle_message(t)
    \/ \E t \in Tasks : TaskStep(t)

SpecDebug == DebugInit /\ [][DebugNext]_vars

\* ------------------------------------------ the relay as a function
\* One call of a wrapped specialist, from the moment the framework invokes
\* the wrapper: with the step of the call in the step table, or with no
\* step under the tool's name.
RelayInit ==
    /\ started = TRUE
    /\ should_stop = "False"
    /\ current_task = None
    /\ task = 1
    /\ message_history = << SystemRecord, UserRecord(1) >>
    /\ \E s \in {None, 1} :
         step_table = [n \in ToolNames |->
                         IF n = "weather_assistant" THEN s ELSE None]
    /\ steps = << [NewStep("weather_assistant", 1) EXCEPT !.sent = TRUE] >>
    /\ pc = [t \in Tasks |-> IF t = 1 THEN "tool_run" ELSE "none"]
    /\ must_cancel = [t \in Tasks |-> FALSE]
    /\ handler = [t \in Tasks |-> IF t = 1 THEN "awaiting" ELSE "none"]
    /\ msg = [t \in Tasks |-> << >>]
    /\ produced = [t \in Tasks |-> << >>]
    /\ call = [t \in Tasks |->
                IF t = 1 THEN [NoCall EXCEPT !.tool = "weather_assistant", !.step = 1]
                ELSE NoCall]
    /\ inputs = 0
    /\ query = [t \in Tasks |-> IF t = 1 THEN Question(1) ELSE NoQuery]
    /\ DebugDefault
    /\ AuthIdle
    /\ LeafIdle

RelayNext ==
    \/ wrapper_start(1)
    \/ wrapper_event(1)
    \/ wrapper_token_streamed(1)
    \/ wrapper_exhausted(1)
    \/ specialist_fails(1)
    \/ wrapper_updated(1)
    \/ on_chat_end
    \/ task_cancelled(1)

SpecRelay == RelayInit /\ [][RelayNext]_vars

\* ------------------------------------------------ authentication boundary
\* header_auth_callback is called by chainlit for every header login of the
\* process; the settings are read once, at import.

\* os.getenv('ENVIRONMENT', 'local'); os.getenv('FAKE_USER', False)
Environments == {"local", "staging", "production"}
FakeUsers == {Unset, Getenv(""), Getenv("dev"), Getenv("qa")}

\* A value in a condition: False and "" are false
Truthy(v) == v.set /\ v.value /= ""

\* The x-user-jwt header of a request: absent, empty, or a token - one that
\* verifies and carries user_info.{userid, display_name}, one past its exp,
\* one signed with another key, one that is no JWT, one whose payload has no
\* user_info, one whose user_info has no display_name.
TokenKinds == {"valid", "expired", "bad_signature", "malformed",
               "no_user_info", "no_display_name"}
Headers ==
    [jwt : {"absent", "empty"} \cup (TokenKinds \ {"valid"}), userid : {""}]
    \cup [jwt : {"valid"}, userid : {"alice", "bob"}]

\* jwt.decode(jwt_token, secret, algorithms=[jwt_algorithm]) and the reads of
\* decoded_payload: the exception raised, or "" when the user_info is read
DecodeError(jwt) ==
    CASE jwt = "expired" -> "ExpiredSignatureError"
      [] jwt = "bad_signature" -> "InvalidSignatureError"
      [] jwt = "malformed" -> "DecodeError"
      [] jwt = "no_user_info" -> "KeyError"
      [] jwt = "no_display_name" -> "KeyError"
      [] OTHER -> ""

\* cl.User(identifier=..., metadata={"role": ..., "provider": ...})
User(identifier, role, provider) ==
    [identifier |-> identifier, role |-> role, provider |-> provider]

Returned(user) == [outcome |-> "returned", user |-> user]
Raised(e) == [outcome |-> e, user |-> NoUser]

\* Calling what cl.User is bound to: the class constructs a user, an
\* instance is not callable
Construct(binding, user) ==
    IF binding = "class" THEN Returned(user) ELSE Raised("TypeError")

\* except jwt.ExpiredSignatureError
Caught(e) == e = "ExpiredSignatureError"

\* modules.cl.auth_callback
auth_callback(headers, binding) ==
    IF headers.jwt \notin {"absent", "empty"}
    THEN LET e == DecodeError(headers.jwt) IN
         CASE e = "" -> Construct(binding, User(headers.userid, "user", "header"))
           [] Caught(e) -> Returned(NoUser)
           [] OTHER -> Raised(e)
    ELSE Returned(NoUser)

\* A faulty variant: the fallback is not tied to the local environment
FakeMode_AnyEnvironment == Truthy(FAKE_USER)

\* if ENVIRONMENT == 'local' and FAKE_USER
FakeMode == ENVIRONMENT = "local" /\ Truthy(FAKE_USER)

\* @cl.header_auth_callback: in fake mode the user is constructed and the
\* name cl.User is bound to it (cl.User = user)
header_auth_callback ==
    /\ \E headers \in Headers :
         LET out == IF FakeMode
                    THEN Construct(cl_User, User(FAKE_USER.value, "admin", "local"))
                    ELSE auth_callback(headers, cl_User)
         IN /\ auth_call' = [headers |-> headers, outcome |-> out.outcome,
                             user |-> out.user]
            /\ cl_User' = IF FakeMode /\ out.outcome = "returned"
                          THEN "instance" ELSE cl_User
    /\ UNCHANGED << chatVars, leafVars, ENVIRONMENT, FAKE_USER >>

AuthInit ==
    /\ ChatInit
    /\ DebugDefault
    /\ LeafIdle
    /\ ENVIRONMENT \in Environments
    /\ FAKE_USER \in FakeUsers
    /\ cl_User = "class"
    /\ auth_call = NoAuthCall

AuthNext == header_auth_callback

SpecAuth == AuthInit /\ [][AuthNext]_vars

\* ------------------------------------------------------------ leaf tools
\* The tools of the specialists' inner agents (tools/*/tools.py), as the
\* functions they are: a call runs from its arguments to its result or its
\* exception in one step.  Dates are day numbers, date + timedelta(days=1)
\* is + 1.  Floats with d decimals are integers in units of 10^-d.  What
\* random() draws is chosen by a seed.

\* The last day a date range may name; the most hours_per_day a call asks for
MaxDay == 2
MaxHours == 2

Dates == 0..MaxDay

\* An Optional[List[str]] argument: None, or a list
NoneArg == [none |-> TRUE, items |-> << >>]
ListArg(l) == [none |-> FALSE, items |-> l]

\* arg or default
OrDefault(arg, default) ==
    IF ~arg.none /\ arg.items /= << >> THEN arg.items ELSE default

\* LogisticsTools.__init__, ProductionTools.__init__, get_logistics_data
DefaultOrigins == << "WH-A", "WH-B" >>
DefaultDestinations == << "CUST-1", "CUST-2", "CUST-3" >>
DefaultMachines == << "M-01" >>
DefaultHoursPerDay == 8
HoursOfDay == 24

\* A call's outcome: the exception it raised or the value it returned, and
\* whether it made an external fetch
Raise(e) == [raised |-> e, fetched |-> FALSE, value |-> << >>]
Return(v) == [raised |-> "", fetched |-> FALSE, value |-> v]

\* range(n), from 1
Range(n) == 1..(IF n > 0 THEN n ELSE 0)

RECURSIVE Concat(_)
Concat(ss) == IF ss = << >> THEN << >> ELSE Head(ss) \o Concat(Tail(ss))

\* sum(ns), by halves
RECURSIVE Sum(_)
Sum(ns) ==
    CASE Len(ns) = 0 -> 0
      [] Len(ns) = 1 -> ns[1]
      [] OTHER -> LET h == Len(ns) \div 2
                  IN Sum(SubSeq(ns, 1, h)) + Sum(SubSeq(ns, h + 1, Len(ns)))

\* round(num / den, d) in units of 10^-d, for num in those units: to the
\* nearest, an exact half to the even side
Round(num, den) ==
    LET q == num \div den
        r == num % den
    IN CASE 2 * r < den -> q
         [] 2 * r > den -> q + 1
         [] OTHER -> IF q % 2 = 0 THEN q ELSE q + 1

\* What ShipmentRecord.synthetic may draw: a status and a delay (a delayed
\* shipment whose gauss(45, 20) came out below 1 has delay 0; IN_TRANSIT and
\* PLANNED overwrite the status of a shipment drawn on time or delayed), a
\* weight (0.1 kg), a distance (0.1 km) and a cost (0.01 EUR).
ShipmentDraws ==
    << [status |-> "DELIVERED", delay_minutes |-> 0, weight_kg |-> 15000,
        distance_km |-> 500, cost_eur |-> 7000],
       [status |-> "DELAYED", delay_minutes |-> 45, weight_kg |-> 30015,
        distance_km |-> 7501, cost_eur |-> 72509],
       [status |-> "IN_TRANSIT", delay_minutes |-> 0, weight_kg |-> 15000,
        distance_km |-> 500, cost_eur |-> 7000],
       [status |-> "DELAYED", delay_minutes |-> 0, weight_kg |-> 52500,
        distance_km |-> 15000, cost_eur |-> 100000],
       [status |-> "PLANNED", delay_minutes |-> 52, weight_kg |-> 30015,
        distance_km |-> 7501, cost_eur |-> 72509],
       [status |-> "IN_TRANSIT", delay_minutes |-> 31, weight_kg |-> 52500,
        distance_km |-> 15000, cost_eur |-> 100000] >>

Seeds == 0..(Len(ShipmentDraws) - 1)
Drawn(draws, n) == draws[(n % Len(draws)) + 1]

\* ShipmentRecord.synthetic(idx, base_dt, origin, destination)
synthetic(idx, base_dt, origin, destination, seed) ==
    LET d == Drawn(ShipmentDraws, seed) IN
    [timestamp |-> << base_dt, idx >>, origin |-> origin,
     destination |-> destination, status |-> d.status,
     delay_minutes |-> d.delay_minutes, weight_kg |-> d.weight_kg,
     distance_km |-> d.distance_km, cost_eur |-> d.cost_eur]

\* A faulty variant: the average is taken over the delayed shipments only
from_records_OverDelayed(records) ==
    LET delayed == Len(SelectSeq(records, LAMBDA r : r.status = "DELAYED"))
        n == IF delayed = 0 THEN 1 ELSE delayed
    IN [records |-> records, total_shipments |-> Len(records),
        delivered |-> Len(SelectSeq(records, LAMBDA r : r.status = "DELIVERED")),
        delayed |-> delayed,
        avg_delay_minutes |->
            Round(100 * Sum([i \in 1..Len(records) |-> records[i].delay_minutes]), n),
        total_weight_kg |-> Sum([i \in 1..Len(records) |-> records[i].weight_kg]),
        total_distance_km |-> Sum([i \in 1..Len(records) |-> records[i].distance_km]),
        total_cost_eur |-> Sum([i \in 1..Len(records) |-> records[i].cost_eur])]

\* LogisticsDataset.from_records
from_records(records) ==
    IF records = << >>
    THEN [records |-> << >>, total_shipments |-> 0, delivered |-> 0,
          delayed |-> 0, avg_delay_minutes |-> 0, total_weight_kg |-> 0,
          total_distance_km |-> 0, total_cost_eur |-> 0]
    ELSE LET total_shipments == Len(records) IN
         [records |-> records,
          total_shipments |-> total_shipments,
          delivered |-> Len(SelectSeq(records, LAMBDA r : r.status = "DELIVERED")),
          delayed |-> Len(SelectSeq(records, LAMBDA r : r.status = "DELAYED")),
          avg_delay_minutes |->
              Round(100 * Sum([i \in 1..Len(records) |-> records[i].delay_minutes]),
                    total_shipments),
          total_weight_kg |-> Sum([i \in 1..Len(records) |-> records[i].weight_kg]),
          total_distance_km |-> Sum([i \in 1..Len(records) |-> records[i].distance_km]),
          total_cost_eur |-> Sum([i \in 1..Len(records) |-> records[i].cost_eur])]

\* for origin in origins: for h in range(hours_per_day): records.append(...)
ShipmentsOfDay(day, origins, destinations, hours_per_day, seed) ==
    Concat([o \in 1..Len(origins) |->
              [k \in Range(hours_per_day) |->
                 synthetic(k - 1, day, origins[o],
                           destinations[(((k - 1) + Len(origins[o])) % Len(destinations)) + 1],
                           seed + day + o + k)]])

\* A faulty variant: the last day of the range is left out
RECURSIVE GenerateShipments_Exclusive(_, _, _, _, _, _)
GenerateShipments_Exclusive(day_cursor, to_date, origins, destinations, hours_per_day, seed) ==
    IF day_cursor < to_date
    THEN ShipmentsOfDay(day_cursor, origins, destinations, hours_per_day, seed)
         \o GenerateShipments_Exclusive(day_cursor + 1, to_date, origins,
                                        destinations, hours_per_day, seed)
    ELSE << >>

\* while day_cursor <= to_date: ...; day_cursor += timedelta(days=1)
RECURSIVE GenerateShipments(_, _, _, _, _, _)
GenerateShipments(day_cursor, to_date, origins, destinations, hours_per_day, seed) ==
    IF day_cursor <= to_date
    THEN ShipmentsOfDay(day_cursor, origins, destinations, hours_per_day, seed)
         \o GenerateShipments(day_cursor + 1, to_date, origins, destinations,
                              hours_per_day, seed)
    ELSE << >>

\* LogisticsTools.get_tools: get_logistics_data
get_logistics_data(from_date, to_date, origins, destinations, hours_per_day, seed) ==
    IF to_date < from_date
    THEN Raise("ValueError: to_date must be >= from_date")
    ELSE Return(from_records(GenerateShipments(
             from_date, to_date, OrDefault(origins, DefaultOrigins),
             OrDefault(destinations, DefaultDestinations), hours_per_day, seed)))

\* LogisticsTools.get_tools: get_logistics_summary
get_logistics_summary(from_date, to_date, seed) ==
    LET ds == get_logistics_data(from_date, to_date, NoneArg, NoneArg,
                                 DefaultHoursPerDay, seed)
    IN IF ds.raised /= "" THEN ds
       ELSE Return([total_shipments |-> ds.value.total_shipments,
                    delivered |-> ds.value.delivered,
                    delayed |-> ds.value.delayed,
                    avg_delay_minutes |-> ds.value.avg_delay_minutes,
                    total_weight_kg |-> ds.value.total_weight_kg,
                    total_distance_km |-> ds.value.total_distance_km,
                    total_cost_eur |-> ds.value.total_cost_eur])

\* key = f"{r.origin}->{r.destination}"
RouteKey(r) == r.origin \o "->" \o r.destination

\* The routes of the records, in the order of their first shipment (the
\* insertion order of route_stats)
RECURSIVE RouteKeys(_)
RouteKeys(records) ==
    IF records = << >> THEN << >>
    ELSE LET before == RouteKeys(SubSeq(records, 1, Len(records) - 1))
             r == records[Len(records)]
             key == RouteKey(r)
         IN IF \E i \in 1..Len(before) : before[i] = key
            THEN before ELSE Append(before, key)

\* One entry of enriched: rates to 0.001, minutes and EUR to 0.01, km and kg
\* to 0.1, cost_per_km to 0.0001
RouteStats(records, key) ==
    LET rs == SelectSeq(records, LAMBDA r : RouteKey(r) = key)
        shipments == Len(rs)
        delayed == Len(SelectSeq(rs, LAMBDA r : r.delay_minutes > 0))
        total_delay == Sum([i \in 1..Len(rs) |-> rs[i].delay_minutes])
        total_cost == Sum([i \in 1..Len(rs) |-> rs[i].cost_eur])
        total_weight == Sum([i \in 1..Len(rs) |-> rs[i].weight_kg])
        total_distance == Sum([i \in 1..Len(rs) |-> rs[i].distance_km])
    IN [route |-> key, origin |-> rs[1].origin, destination |-> rs[1].destination,
        shipments |-> shipments, delayed |-> delayed,
        delay_rate |-> Round(1000 * delayed, shipments),
        avg_delay_minutes |-> Round(100 * total_delay, shipments),
        total_cost_eur |-> total_cost,
        avg_cost_eur |-> Round(total_cost, shipments),
        total_weight_kg |-> total_weight,
        total_distance_km |-> total_distance,
        cost_per_km |-> IF total_distance /= 0
                        THEN Round(1000 * total_cost, total_distance) ELSE 0]

SortKeys == {"delay_rate", "avg_delay_minutes", "total_cost_eur"}

\* d[sort_by]
SortKey(d, sort_by) ==
    CASE sort_by = "delay_rate" -> d.delay_rate
      [] sort_by = "avg_delay_minutes" -> d.avg_delay_minutes
      [] sort_by = "total_cost_eur" -> d.total_cost_eur

\* A faulty variant: the sort is made without reverse=True
RECURSIVE SortReverse_Ascending(_, _)
SortReverse_Ascending(xs, sort_by) ==
    IF xs = << >> THEN << >>
    ELSE LET sorted == SortReverse_Ascending(SubSeq(xs, 1, Len(xs) - 1), sort_by)
             x == xs[Len(xs)]
             ahead == Len(SelectSeq(sorted, LAMBDA d : SortKey(d, sort_by) <= SortKey(x, sort_by)))
         IN SubSeq(sorted, 1, ahead) \o << x >> \o SubSeq(sorted, ahead + 1, Len(sorted))

\* list.sort(key=..., reverse=True): descending, equal keys keep their order
RECURSIVE SortReverse(_, _)
SortReverse(xs, sort_by) ==
    IF xs = << >> THEN << >>
    ELSE LET sorted == SortReverse(SubSeq(xs, 1, Len(xs) - 1), sort_by)
             x == xs[Len(xs)]
             ahead == Len(SelectSeq(sorted, LAMBDA d : SortKey(d, sort_by) >= SortKey(x, sort_by)))
         IN SubSeq(sorted, 1, ahead) \o << x >> \o SubSeq(sorted, ahead + 1, Len(sorted))

\* xs[:top]
Slice(xs, top) ==
    LET n == IF top >= 0 THEN (IF top < Len(xs) THEN top ELSE Len(xs))
             ELSE (IF Len(xs) + top > 0 THEN Len(xs) + top ELSE 0)
    IN SubSeq(xs, 1, n)

\* LogisticsTools.get_tools: get_logistics_route_analysis
get_logistics_route_analysis(from_date, to_date, origins, destinations, hours_per_day, sort_by, top, seed) ==
    LET dataset == get_logistics_data(from_date, to_date, origins, destinations,
                                      hours_per_day, seed)
        by == IF sort_by \notin SortKeys THEN "delay_rate" ELSE sort_by
    IN IF dataset.raised /= "" THEN dataset
       ELSE LET keys == RouteKeys(dataset.value.records)
                enriched == [i \in 1..Len(keys) |->
                               RouteStats(dataset.value.records, keys[i])]
            IN Return(Slice(SortReverse(enriched, by), top))

\* Shift.from_hour
from_hour(hour) ==
    CASE 6 <= hour /\ hour < 14 -> "A"
      [] 14 <= hour /\ hour < 22 -> "M"
      [] OTHER -> "N"

\* operator_experience: None, or years (0.1)
NoneExperience == [none |-> TRUE, value |-> 0]
Experience(e) == [none |-> FALSE, value |-> e]

\* What ProductionData.synthetic_record may draw: the experience, when none
\* is given (0.1 years), the penalties and noise of the scrap (0.01 kg), and
\* the unplanned stop
ProductionDraws ==
    << [exp |-> 10, penalty |-> 0, unplanned_stop |-> FALSE],
       [exp |-> 250, penalty |-> 137, unplanned_stop |-> TRUE],
       [exp |-> 120, penalty |-> 42, unplanned_stop |-> FALSE] >>

ProductionSeeds == 0..(Len(ProductionDraws) - 1)

\* ProductionData._synthetic_scrap: base + penalties + stop_penalty + noise
synthetic_scrap(penalty, operator_experience, unplanned_stop) ==
    LET base == IF 300 - operator_experience > 20
                THEN 300 - operator_experience ELSE 20
    IN base + penalty + (IF unplanned_stop THEN 500 ELSE 0)

\* A datetime is << day, hour, minute >>.
\* datetime.combine(day, datetime.min.time())
Combine(day) == << day, 0, 0 >>

\* v.replace(minute=0, second=0, microsecond=0)
truncate_to_hour(v) == << v[1], v[2], 0 >>

\* The members of Shift
Shifts == {"A", "M", "N"}

\* A faulty variant: the shift passed to the constructor is kept
recompute_shift_Keep(rec) == rec

\* ProductionData.recompute_shift (model_validator, mode="after")
recompute_shift(rec) ==
    LET expected_shift == from_hour(rec.timestamp[2]) IN
    IF rec.shift /= expected_shift THEN [rec EXCEPT !.shift = expected_shift]
    ELSE rec

\* The field constraints of ProductionData: shift a Shift,
\* operator_experience in 0..50 years, scrap_kg >= 0
ValidFields(f) ==
    /\ f.shift \in Shifts
    /\ 0 <= f.operator_experience /\ f.operator_experience <= 500
    /\ f.scrap_kg >= 0

\* ProductionData(...): the fields are validated, the timestamp truncated,
\* the shift recomputed
ProductionData(f) ==
    IF ValidFields(f)
    THEN Return(recompute_shift([f EXCEPT !.timestamp = truncate_to_hour(@)]))
    ELSE Raise("ValidationError")

\* ProductionData.synthetic_record (the fields it builds are within their
\* constraints for an operator_experience of at most 50 years)
synthetic_record(machine_id, dt, operator_experience, seed) ==
    LET d == Drawn(ProductionDraws, seed)
        dt_trunc == truncate_to_hour(dt)
        exp == IF ~operator_experience.none THEN operator_experience.value ELSE d.exp
    IN ProductionData(
           [timestamp |-> dt_trunc, machine_id |-> machine_id,
            shift |-> from_hour(dt_trunc[2]), operator_experience |-> exp,
            scrap_kg |-> synthetic_scrap(d.penalty, exp, d.unplanned_stop),
            unplanned_stop |-> d.unplanned_stop]).value

\* ProductionData.synthetic_day: start + timedelta(hours=i) for i in range(24)
synthetic_day(machine_id, day, operator_experience, seed) ==
    LET start == << day[1], 0, 0 >> IN
    [i \in Range(HoursOfDay) |->
       synthetic_record(machine_id, << start[1], start[2] + (i - 1), start[3] >>,
                        operator_experience, seed + day[1] + i)]

\* ProductionDataset.from_records
production_from_records(records) ==
    IF records = << >>
    THEN [records |-> << >>, total_scrap_kg |-> 0, avg_scrap_kg |-> 0,
          unplanned_stops |-> 0]
    ELSE LET total == Sum([i \in 1..Len(records) |-> records[i].scrap_kg]) IN
         [records |-> records, total_scrap_kg |-> total,
          avg_scrap_kg |-> Round(total, Len(records)),
          unplanned_stops |-> Len(SelectSeq(records, LAMBDA r : r.unplanned_stop))]

\* while current_day <= to_date: for mid in machine_ids: ...extend(...)
RECURSIVE GenerateProduction(_, _, _, _, _)
GenerateProduction(current_day, to_date, machine_ids, operator_experience, seed) ==
    IF current_day <= to_date
    THEN Concat([m \in 1..Len(machine_ids) |->
                   synthetic_day(machine_ids[m], Combine(current_day),
                                 operator_experience, seed + m)])
         \o GenerateProduction(current_day + 1, to_date, machine_ids,
                               operator_experience, seed)
    ELSE << >>

\* ProductionTools.get_tools: get_production_data
get_production_data(from_date, to_date, machines, operator_experience, seed) ==
    IF to_date < from_date
    THEN Raise("ValueError: to_date must be >= from_date")
    ELSE Return(production_from_records(GenerateProduction(
             from_date, to_date, OrDefault(machines, DefaultMachines),
             operator_experience, seed)))

\* ProductionTools.get_tools: get_production_summary
get_production_summary(from_date, to_date, machines, operator_experience, seed) ==
    LET dataset == get_production_data(from_date, to_date, machines,
                                       operator_experience, seed)
        machine_ids == OrDefault(machines, DefaultMachines)
    IN IF dataset.raised /= "" THEN dataset
       ELSE LET recs == dataset.value.records
                ids == {machine_ids[i] : i \in 1..Len(machine_ids)}
            IN Return([machines |-> machine_ids,
                       days |-> (to_date - from_date) + 1,
                       hours |-> Len(recs),
                       total_scrap_kg |-> dataset.value.total_scrap_kg,
                       avg_scrap_kg |-> dataset.value.avg_scrap_kg,
                       unplanned_stops |-> dataset.value.unplanned_stops,
                       scrap_per_machine |->
                           [m \in ids |->
                              Sum([i \in 1..Len(recs) |->
                                     IF recs[i].machine_id = m
                                     THEN recs[i].scrap_kg ELSE 0])]])

\* What requests.get(url) and response.json() may give get_hourly_weather_data:
\* no response (the request raises), a JSON body without 'hourly' (the API's
\* error body), or hourly series under the times listed
WeatherResponses ==
    {[kind |-> "ConnectionError", time |-> << >>],
     [kind |-> "error_body", time |-> << >>]}
    \cup [kind : {"hourly"}, time : {<< >>, << 0 >>, << 0, 1 >>, << 0, 0 >>}]

WeatherSeries ==
    << "temperature_2m", "relative_humidity_2m", "apparent_temperature",
       "precipitation", "evapotranspiration", "surface_pressure" >>

\* data['hourly'][series][i]
SeriesValue(k, i) == 10 * k + i

\* list.index(x)
IndexOf(xs, x) == CHOOSE i \in 1..Len(xs) :
                     xs[i] = x /\ \A j \in 1..(i - 1) : xs[j] /= x

\* The fetch was made
Fetched(outcome) == [outcome EXCEPT !.fetched = TRUE]

\* WeatherTools.get_tools: get_hourly_weather_data
get_hourly_weather_data(from_date, to_date, response) ==
    CASE response.kind = "ConnectionError" -> Fetched(Raise("ConnectionError"))
      [] response.kind = "error_body" -> Fetched(Raise("KeyError: 'hourly'"))
      [] OTHER ->
           Fetched(Return(
               [k \in 1..Len(WeatherSeries) |->
                  [n \in 1..Len(response.time) |->
                     [time |-> response.time[n],
                      value |-> SeriesValue(k, IndexOf(response.time,
                                                       response.time[n]))]]]))

\* The arguments the inner agent may pass (names are free text: "WH" with
\* "X->C" and "WH->X" with "C" spell the same route)
OriginArgs == {NoneArg, ListArg(<< >>), ListArg(<< "WH-C" >>),
               ListArg(<< "WH", "WH->X" >>)}
DestinationArgs == {NoneArg, ListArg(<< "X->C", "C" >>)}
HoursArgs == -1..MaxHours
MachineArgs == {NoneArg, ListArg(<< >>), ListArg(<< "M-02", "M-03" >>),
                ListArg(<< "M-02", "M-02" >>)}
ExperienceArgs == {NoneExperience, Experience(50)}
SortByArgs == SortKeys \cup {"shipments"}
DefaultTop == 10
TopArgs == {-1, 0, 1, 2, DefaultTop}

\* The most records a list handed to from_records holds
MaxRecords == 3

RecordLists ==
    UNION {[1..n -> {synthetic(0, 0, "WH-A", "CUST-1", k) : k \in Seeds}] :
             n \in 0..MaxRecords}

\* The record of a call of tool with args that ended with outcome
Called(tool, args, outcome) ==
    [tool |-> tool, args |-> args, raised |-> outcome.raised,
     fetched |-> outcome.fetched, value |-> outcome.value]

invoke_get_logistics_data ==
    /\ leaf_call = NoLeafCall
    /\ UNCHANGED << chatVars, authVars >>
    /\ \E from_date, to_date \in Dates, origins \in OriginArgs,
       destinations \in DestinationArgs, hours_per_day \in HoursArgs, seed \in Seeds :
         leaf_call' = Called("get_logistics_data",
                 [from_date |-> from_date, to_date |-> to_date, origins |-> origins,
                  destinations |-> destinations, hours_per_day |-> hours_per_day],
                 get_logistics_data(from_date, to_date, origins, destinations,
                                    hours_per_day, seed))

invoke_get_logistics_summary ==
    /\ leaf_call = NoLeafCall
    /\ UNCHANGED << chatVars, authVars >>
    /\ \E from_date, to_date \in Dates, seed \in Seeds :
         leaf_call' = Called("get_logistics_summary",
                 [from_date |-> from_date, to_date |-> to_date],
                 get_logistics_summary(from_date, to_date, seed))

invoke_get_logistics_route_analysis ==
    /\ leaf_call = NoLeafCall
    /\ UNCHANGED << chatVars, authVars >>
    /\ \E from_date, to_date \in Dates, origins \in OriginArgs,
       destinations \in DestinationArgs, hours_per_day \in HoursArgs,
       sort_by \in SortByArgs, top \in TopArgs, seed \in Seeds :
         leaf_call' = Called("get_logistics_route_analysis",
                 [from_date |-> from_date, to_date |-> to_date, origins |-> origins,
                  destinations |-> destinations, hours_per_day |-> hours_per_day,
                  sort_by |-> sort_by, top |-> top, draws |-> seed],
                 get_logistics_route_analysis(from_date, to_date, origins,
                                              destinations, hours_per_day,
                                              sort_by, top, seed))

invoke_get_production_data ==
    /\ leaf_call = NoLeafCall
    /\ UNCHANGED << chatVars, authVars >>
    /\ \E from_date, to_date \in Dates, machines \in MachineArgs,
       operator_experience \in ExperienceArgs, seed \in ProductionSeeds :
         leaf_call' = Called("get_production_data",
                 [from_date |-> from_date, to_date |-> to_date, machines |-> machines,
                  operator_experience |-> operator_experience],
                 get_production_data(from_date, to_date, machines,
                                     operator_experience, seed))

invoke_get_production_summary ==
    /\ leaf_call = NoLeafCall
    /\ UNCHANGED << chatVars, authVars >>
    /\ \E from_date, to_date \in Dates, machines \in MachineArgs,
       operator_experience \in ExperienceArgs, seed \in ProductionSeeds :
         leaf_call' = Called("get_production_summary",
                 [from_date |-> from_date, to_date |-> to_date, machines |-> machines,
                  operator_experience |-> operator_experience],
                 get_production_summary(from_date, to_date, machines,
                                        operator_experience, seed))

invoke_get_hourly_weather_data ==
    /\ leaf_call = NoLeafCall
    /\ UNCHANGED << chatVars, authVars >>
    /\ \E from_date, to_date \in Dates, response \in WeatherResponses :
         leaf_call' = Called("get_hourly_weather_data",
                 [from_date |-> from_date, to_date |-> to_date],
                 get_hourly_weather_data(from_date, to_date, response))

invoke_from_records ==
    /\ leaf_call = NoLeafCall
    /\ UNCHANGED << chatVars, authVars >>
    /\ \E records \in RecordLists :
         leaf_call' = Called("from_records", [records |-> records], Return(from_records(records)))

\* The datetimes and the fields a caller may pass
Datetimes == {<< day, hour, minute >> : day \in Dates, hour \in 0..23, minute \in {0, 30}}
ShiftArgs == Shifts \cup {"X"}

invoke_ProductionData ==
    /\ leaf_call = NoLeafCall
    /\ UNCHANGED << chatVars, authVars >>
    /\ \E timestamp \in Datetimes, shift \in ShiftArgs, operator_experience \in {50, 510} :
         leaf_call' = Called("ProductionData",
                 [timestamp |-> timestamp, shift |-> shift,
                  operator_experience |-> operator_experience],
                 ProductionData([timestamp |-> timestamp, machine_id |-> "M-01",
                                 shift |-> shift,
                                 operator_experience |-> operator_experience,
                                 scrap_kg |-> 250, unplanned_stop |-> FALSE]))

invoke_synthetic_day ==
    /\ leaf_call = NoLeafCall
    /\ UNCHANGED << chatVars, authVars >>
    /\ \E day \in Datetimes, operator_experience \in ExperienceArgs,
          seed \in ProductionSeeds :
         leaf_call' = Called("synthetic_day",
                 [day |-> day, operator_experience |-> operator_experience],
                 Return(synthetic_day("M-01", day, operator_experience, seed)))

LeafInit == ChatInit /\ DebugDefault /\ AuthIdle /\ LeafIdle

LeafNext ==
    \/ invoke_get_logistics_data
    \/ invoke_get_logistics_summary
    \/ invoke_get_logistics_route_analysis
    \/ invoke_get_production_data
    \/ invoke_get_production_summary
    \/ invoke_get_hourly_weather_data
    \/ invoke_from_records
    \/ invoke_ProductionData
    \/ invoke_synthetic_day

SpecLeaf == LeafInit /\ [][LeafNext]_vars

\* ================================================================ claims

\* A generation task handle_message has created
Created(t) == pc[t] /= "none"

\* A cancellation requested of task t has been carried out: the task ended
\* cancelled and the await in its handle_message caught it (it returned).
CancelledAndCaught(t) == pc[t] = "cancelled" /\ handler[t] = "returned"

\* C1: when chat-end requests the cancellation of the session's generation
\* task while it is not finished, the task eventually ends cancelled, and in
\* no other way; the await in its handle_message catches the cancellation
\* (the handler returns, no exception leaves it); and the session state a
\* later message needs (started, history) is left as it was.
C1_ChatEndCancelsTask ==
    /\ []<>(\A t \in Tasks : must_cancel[t] => CancelledAndCaught(t))
    /\ [](\A t \in Tasks : (must_cancel[t] /\ done(t)) => CancelledAndCaught(t))
    /\ [][\A t \in Tasks : (must_cancel[t] /\ pc'[t] = "cancelled" /\ pc[t] /= "cancelled")
              => (started' /\ message_history' = message_history)]_vars

\* C1 witness: a task was cancelled mid-stream by chat-end, its handler
\* returned, and a later message of the session was processed to the end.
C1_Witness ==
    \E t, u \in Tasks :
        /\ t < u
        /\ pc[t] = "cancelled" /\ handler[t] = "returned" /\ Len(produced[t]) > 0
        /\ pc[u] = "done" /\ handler[u] = "returned" /\ Len(msg[u]) > 0

\* A task that is running its own code: started, not finished, not cancelled
Active(t) == pc[t] \notin {"none", "created"} \cup Terminal /\ ~must_cancel[t]

\* C2: at most one generation task is active in a session at any time.
C2_AtMostOneActiveTask ==
    Cardinality({t \in Tasks : Active(t)}) <= 1

\* C3: once a new inbound message has arrived, every generation task of an
\* earlier message is finished or has been asked to cancel.
C3_NewMessageCancelsPrevious ==
    \A t, u \in Tasks :
        (t < u /\ Created(u)) => (done(t) \/ must_cancel[t])

\* C4: when on_chat_end returns, every generation task of the session that
\* is not finished has received a cancellation request.
C4_ChatEndCancelsEveryTask ==
    [][on_chat_end =>
         \A t \in Tasks : (Created(t) /\ ~done(t)) => must_cancel'[t]]_vars

IsPrefix(a, b) == Len(a) <= Len(b) /\ SubSeq(b, 1, Len(a)) = a

SystemRecords(h) == {i \in 1..Len(h) : h[i].role = "system"}

\* C5: start_chat leaves the history with exactly one system record,
\* should_stop false and the current task null; from then on the history
\* begins with a system record, holds exactly one system record, and every
\* step either leaves it alone or appends at its end.
C5_HistoryAppendOnly ==
    /\ [][(~started /\ started') =>
             /\ message_history' = << SystemRecord >>
             /\ should_stop' = "False"
             /\ current_task' = None]_vars
    /\ [](started =>
             /\ Len(message_history) >= 1
             /\ message_history[1].role = "system"
             /\ Cardinality(SystemRecords(message_history)) = 1)
    /\ [][started => IsPrefix(message_history, message_history')]_vars

\* C5 witness: after messages, stream events and a cancellation the history
\* holds the system record, user records and a record of the stream.
C5_Witness ==
    /\ \E t \in Tasks : pc[t] = "cancelled"
    /\ \E i \in 1..Len(message_history) : message_history[i].role = "assistant"
    /\ Cardinality({i \in 1..Len(message_history) : message_history[i].role = "user"}) >= 2

\* The tokens user_task has to forward for the events evs of task t, in order
RECURSIVE ExpectedTokens(_, _, _)
ExpectedTokens(t, evs, n) ==
    IF n = 0 THEN << >>
    ELSE LET rest == ExpectedTokens(t, evs, n - 1) IN
         CASE evs[n].kind = "data" -> Append(rest, EventText(t, n))
           [] evs[n].kind = "message" -> Append(rest, Newline)
           [] OTHER -> rest

\* The history records user_task has to append for the events evs, in order
RECURSIVE ExpectedRecords(_, _, _)
ExpectedRecords(t, evs, n) ==
    IF n = 0 THEN << >>
    ELSE LET rest == ExpectedRecords(t, evs, n - 1) IN
         IF evs[n].kind = "message"
         THEN Append(rest, [role |-> evs[n].role, content |-> EventText(t, n)])
         ELSE rest

\* The records of the history that come from the stream of task t
FromStream(t, rec) == rec.content[1] = "e" /\ rec.content[2] = t
HistoryOf(t) == SelectSeq(message_history, LAMBDA rec : FromStream(t, rec))

\* The newline of the last event is out and its record not yet appended:
\* the task is at (or was cancelled at) the await between the two.
RecordPending(t) ==
    /\ Len(produced[t]) > 0
    /\ produced[t][Len(produced[t])].kind = "message"
    /\ pc[t] \in {"tok_msg", "cancelled"}

\* C6: in every state the outbound message of a task holds the tokens of
\* the events its stream has produced so far, in stream order, and the
\* history holds the records of its message events, in stream order: all of
\* them, or all but the last while that event's newline is being streamed.
C6_StreamOrder ==
    \A t \in Tasks :
        LET n == Len(produced[t]) IN
        /\ msg[t] = ExpectedTokens(t, produced[t], n)
        /\ \/ HistoryOf(t) = ExpectedRecords(t, produced[t], n)
           \/ /\ RecordPending(t)
              /\ HistoryOf(t) = ExpectedRecords(t, produced[t], n - 1)

\* C6 witness: a finished task whose stream produced a message event and
\* then a data event and a message event.
C6_Witness ==
    \E t \in Tasks :
        /\ pc[t] = "done"
        /\ Len(produced[t]) = 3
        /\ produced[t][1].kind = "message"
        /\ produced[t][2].kind = "data"
        /\ produced[t][3].kind = "message"
        /\ Len(HistoryOf(t)) = 2

\* A tool call whose call-start hook has run and whose call-end hook has not
Open(i) == steps[i].sent /\ ~steps[i].ended

\* C7: no tool name has two open calls, and a generation task that has
\* ended (finished, failed or cancelled) has left none of its calls open.
C7_CallStartHasCallEnd ==
    /\ \A i, j \in 1..Len(steps) :
          (i /= j /\ steps[i].tool = steps[j].tool) => ~(Open(i) /\ Open(j))
    /\ \A i \in 1..Len(steps) : done(steps[i].task) => ~Open(i)

\* A step that is visible: sent and not removed
Live(i) == steps[i].sent /\ ~steps[i].removed

\* C8: at most one step per tool name is live.
C8_OneLiveStepPerTool ==
    \A n \in ToolNames :
        Cardinality({i \in 1..Len(steps) : steps[i].tool = n /\ Live(i)}) <= 1

\* The concatenation of the text deltas of the first n events of log
RECURSIVE DeltaConcat(_, _)
DeltaConcat(log, n) ==
    IF n = 0 THEN EmptyStr
    ELSE DeltaConcat(log, n - 1) \o
         (IF log[n].shape = "delta" THEN log[n].text ELSE EmptyStr)

\* The calls the relay is at work in
InWrapper(t) == pc[t] \in {"func_next", "step_tok", "step_update", "tool_done"}
WrapperReturned(t) == pc[t] \in {"step_update", "tool_done"}

\* C9: the events the wrapper has yielded downstream are the events the
\* wrapped function has yielded, unchanged and in the same order: all of
\* them, or all but the last while the wrapper streams that event's text to
\* the step, before it yields the event.
C9_RelayPassThrough ==
    \A t \in Tasks :
        LET c == call[t] IN
        IF pc[t] = "step_tok"
        THEN /\ Len(c.flog) > 0
             /\ c.ylog = SubSeq(c.flog, 1, Len(c.flog) - 1)
        ELSE c.ylog = c.flog

\* C9 witness: a call with no step under the tool's name has returned after
\* a text delta, a dict without a delta and the error string.
C9_Witness ==
    \E t \in Tasks :
        /\ pc[t] = "tool_done"
        /\ call[t].ref = None
        /\ Len(call[t].ylog) = 3
        /\ call[t].ylog[1].shape = "delta" /\ call[t].ylog[1].text /= EmptyStr
        /\ call[t].ylog[2].shape = "dict"
        /\ call[t].ylog[3] = ErrorEvent

ErrorsYielded(t) ==
    {i \in 1..Len(call[t].ylog) : call[t].ylog[i].shape = "str"}

\* C11: when the inner agent of a specialist raises, at whatever point of
\* its stream, the task does not fail: the wrapper yields one more event, a
\* text that begins with "Error in research assistant:", and goes on to its
\* normal end (the step's update, or its return); a call never yields more
\* than one such text, and none after it.
C11_SpecialistErrorIsText ==
    /\ [][\A t \in Tasks : specialist_fails(t) =>
              LET y == call'[t].ylog IN
              /\ Len(y) = Len(call[t].ylog) + 1
              /\ SubSeq(y, 1, Len(y) - 1) = call[t].ylog
              /\ y[Len(y)].shape = "str"
              /\ y[Len(y)].text[1] = "Error in research assistant: "
              /\ pc'[t] \in {"step_update", "tool_done"}
              /\ handler'[t] = "awaiting"]_vars
    /\ [](\A t \in Tasks :
            /\ Cardinality(ErrorsYielded(t)) <= 1
            /\ \A i \in ErrorsYielded(t) :
                  /\ i = Len(call[t].ylog)
                  /\ pc[t] \in {"step_update", "tool_done", "step_remove"})

\* C11 witness: a call with a step streamed a text delta, then its inner
\* agent raised, and the wrapper returned after the error text.
C11_Witness ==
    \E t \in Tasks :
        /\ pc[t] = "tool_done"
        /\ call[t].ref /= None
        /\ Len(call[t].ylog) = 2
        /\ call[t].ylog[1].shape = "delta" /\ call[t].ylog[1].text /= EmptyStr
        /\ call[t].ylog[2].shape = "str"
        /\ steps[call[t].ref].output = call[t].ylog[1].text

\* The leaf tool providers that take a date range
RangeTools ==
    {"get_logistics_data", "get_logistics_summary", "get_logistics_route_analysis",
     "get_production_data", "get_production_summary", "get_hourly_weather_data"}

\* A call of a leaf tool with to_date < from_date has ended
InvalidRangeCall ==
    /\ leaf_call.tool \in RangeTools
    /\ leaf_call.args.to_date < leaf_call.args.from_date

\* C12: a call of a leaf tool provider with to_date < from_date raises the
\* invalid-range error, returns no dataset and makes no external fetch.
C12_InvalidRangeRejected ==
    InvalidRangeCall =>
        /\ leaf_call.raised = "ValueError: to_date must be >= from_date"
        /\ leaf_call.value = << >>
        /\ ~leaf_call.fetched

\* C12, for the providers of the logistics and production specialists alone
C12_SyntheticProvidersReject ==
    (InvalidRangeCall /\ leaf_call.tool /= "get_hourly_weather_data") =>
        /\ leaf_call.raised = "ValueError: to_date must be >= from_date"
        /\ leaf_call.value = << >>
        /\ ~leaf_call.fetched

\* The weather scenario has run to its end: one inbound message, its
\* generation finished, the orchestrator having made one tool call, to the
\* specialist, and closed its stream with the assistant's message.
WeatherScenarioDone ==
    /\ started
    /\ pc[1] = "done"
    /\ \A t \in Tasks : t /= 1 => pc[t] = "none"
    /\ Len(steps) = 1
    /\ steps[1].tool = "weather_assistant" /\ steps[1].ended
    /\ Len(produced[1]) > 0
    /\ produced[1][Len(produced[1])].kind = "message"
    /\ produced[1][Len(produced[1])].role = "assistant"

\* C13: after the weather scenario the history holds exactly 3 records: the
\* system record, the user record and one assistant record.
C13_ScenarioHistoryHasThreeRecords ==
    WeatherScenarioDone =>
        /\ Len(message_history) = 3
        /\ message_history[1].role = "system"
        /\ message_history[2].role = "user"
        /\ message_history[3].role = "assistant"

\* The user record of task t is in the history
UserRecordKept(h, t) == \E i \in 1..Len(h) : h[i] = UserRecord(t)

\* C14: from the moment a cancellation is requested of a generation task
\* that has not reached msg.update(), the task adds no token to its outbound
\* message and no record to the history, takes nothing back (its tokens, its
\* records and its user record stay), and never calls msg.update(): its only
\* step is the one that ends it cancelled.
C14_CancelKeepsAndStops ==
    [][\A t \in Tasks :
         (Created(t) /\ must_cancel[t] /\ pc[t] \notin {"update", "done", "failed"}) =>
             /\ msg'[t] = msg[t]
             /\ produced'[t] = produced[t]
             /\ HistoryOf(t)' = HistoryOf(t)
             /\ IsPrefix(message_history, message_history')
             /\ UserRecordKept(message_history', t)
             /\ pc'[t] \in {pc[t], "cancelled"}]_vars

\* C14 witness: a task was cancelled while it streamed a data token, after
\* a message event whose record is in the history, and another task of the
\* session is running.
C14_Witness ==
    \E t, u \in Tasks :
        /\ pc[t] = "cancelled"
        /\ Len(produced[t]) = 2
        /\ produced[t][1].kind = "message" /\ produced[t][2].kind = "data"
        /\ Len(msg[t]) = 2 /\ Len(HistoryOf(t)) = 1
        /\ u /= t /\ pc[u] = "next"

\* header_auth_callback has been called
AuthCalled == auth_call.outcome /= ""

\* C15: outside the fake-user mode a call of the authentication boundary
\* returns, whatever the header: no identity for a missing header and for a
\* token that is expired, wrongly signed, malformed or without user_info,
\* and an identity only for a token that decodes.
C15_BadTokenGivesNoIdentity ==
    (AuthCalled /\ ~FakeMode) =>
        /\ auth_call.outcome = "returned"
        /\ auth_call.user /= NoUser <=> auth_call.headers.jwt = "valid"

\* The identity the header alone stands for
HeaderIdentity(headers) ==
    IF headers.jwt = "valid" THEN User(headers.userid, "user", "header") ELSE NoUser

\* C16: an identity of the local provider is given only when the
\* environment is local and FAKE_USER is configured; in every other
\* configuration the identity a call gives is the one its header stands
\* for, and none without a valid token, whatever ENVIRONMENT and FAKE_USER.
C16_FakeIdentityOnlyLocal ==
    /\ auth_call.user.provider = "local" =>
          (ENVIRONMENT = "local" /\ Truthy(FAKE_USER))
    /\ (AuthCalled /\ ~(ENVIRONMENT = "local" /\ Truthy(FAKE_USER))) =>
          auth_call.user = HeaderIdentity(auth_call.headers)

\* C16 witness: in a non-local environment with FAKE_USER set, a request
\* with a valid token was given its own identity.
C16_Witness ==
    /\ ENVIRONMENT = "production" /\ FAKE_USER = Getenv("dev")
    /\ auth_call.headers.jwt = "valid"
    /\ auth_call.user = User("alice", "user", "header")

\* C17: in the local environment with FAKE_USER configured every call of
\* header_auth_callback returns the local identity FAKE_USER.
C17_FakeModeAlwaysReturns ==
    (AuthCalled /\ ENVIRONMENT = "local" /\ Truthy(FAKE_USER)) =>
        /\ auth_call.outcome = "returned"
        /\ auth_call.user = User(FAKE_USER.value, "admin", "local")

\* The records of a list that have the given status; the sum of the delays
WithStatus(records, status) == {i \in 1..Len(records) : records[i].status = status}

RECURSIVE DelaySum(_, _)
DelaySum(records, n) ==
    IF n = 0 THEN 0 ELSE DelaySum(records, n - 1) + records[n].delay_minutes

\* A call that ended with a LogisticsDataset
DatasetReturned ==
    /\ leaf_call.tool \in {"from_records", "get_logistics_data"}
    /\ leaf_call.raised = ""

\* C18: the dataset from_records returns for a list of records has
\* total_shipments equal to the number of records and to delivered +
\* delayed + the records IN_TRANSIT + the records PLANNED, delivered and
\* delayed being the numbers of records with those statuses, and
\* avg_delay_minutes (in 0.01) within half a unit of 100 * sum(delay_minutes)
\* / total_shipments; for the empty list every aggregate is 0.
C18_DatasetAggregates ==
    DatasetReturned =>
        LET ds == leaf_call.value
            recs == ds.records
            n == Len(recs)
        IN /\ leaf_call.tool = "from_records" => recs = leaf_call.args.records
           /\ ds.total_shipments = n
           /\ ds.delivered = Cardinality(WithStatus(recs, "DELIVERED"))
           /\ ds.delayed = Cardinality(WithStatus(recs, "DELAYED"))
           /\ n = ds.delivered + ds.delayed
                    + Cardinality(WithStatus(recs, "IN_TRANSIT"))
                    + Cardinality(WithStatus(recs, "PLANNED"))
           /\ 2 * (ds.avg_delay_minutes * n - 100 * DelaySum(recs, n)) <= n
           /\ 2 * (100 * DelaySum(recs, n) - ds.avg_delay_minutes * n) <= n
           /\ n = 0 => /\ ds.delivered = 0 /\ ds.delayed = 0
                       /\ ds.avg_delay_minutes = 0 /\ ds.total_weight_kg = 0
                       /\ ds.total_distance_km = 0 /\ ds.total_cost_eur = 0

\* C18 witness: from_records was given a delivered, a delayed and an
\* in-transit record with delays 0, 45 and 31: the average is 25.33.
C18_Witness ==
    /\ leaf_call.tool = "from_records"
    /\ leaf_call.value.total_shipments = 3
    /\ leaf_call.value.delivered = 1 /\ leaf_call.value.delayed = 1
    /\ leaf_call.value.avg_delay_minutes = 2533

\* A call with from_date <= to_date has ended; the days of its range
ValidRangeCall(tool) ==
    /\ leaf_call.tool = tool
    /\ leaf_call.args.from_date <= leaf_call.args.to_date

DaysOfCall == (leaf_call.args.to_date - leaf_call.args.from_date) + 1

\* The length of a list argument as given (of the default when None is given)
GivenLen(arg, default) == IF arg.none THEN Len(default) ELSE Len(arg.items)

InEffectLen(arg, default) ==
    IF arg.none \/ Len(arg.items) = 0 THEN Len(default) ELSE Len(arg.items)

SlotsInEffect(hours_per_day) == IF hours_per_day < 0 THEN 0 ELSE hours_per_day

MessageEvents(evs) == {i \in 1..Len(evs) : evs[i].kind = "message"}

\* What the generation task does on receiving an event, and when it appends
\* to the history: a data event adds its text to the outbound message and
\* leaves the history alone, a message event adds one newline, any other
\* event changes neither; a record the task appends is the record of the
\* message event it received last, after that event's newline.
EventHandling ==
    [][\A t \in Tasks :
         /\ Len(produced'[t]) > Len(produced[t]) =>
              LET i == Len(produced'[t])
                  ev == produced'[t][i]
              IN /\ i = Len(produced[t]) + 1
                 /\ message_history' = message_history
                 /\ ev.kind = "data" => msg'[t] = Append(msg[t], EventText(t, i))
                 /\ ev.kind = "message" => msg'[t] = Append(msg[t], Newline)
                 /\ ev.kind \notin {"data", "message"} => msg'[t] = msg[t]
         /\ Len(produced'[t]) = Len(produced[t]) => msg'[t] = msg[t]
         /\ (/\ Len(message_history') > Len(message_history)
             /\ FromStream(t, message_history'[Len(message_history')])) =>
              LET i == Len(produced[t]) IN
              /\ pc[t] = "tok_msg" /\ produced[t][i].kind = "message"
              /\ message_history' =
                    Append(message_history,
                           [role |-> produced[t][i].role, content |-> EventText(t, i)])
              /\ msg'[t] = msg[t]]_vars

\* C20 as stated: each event is handled as its kind requires, and every
\* message event the stream has produced has exactly one record in the
\* history once the task is past that event's newline.
C20_EveryMessageEventRecorded ==
    /\ EventHandling
    /\ [](\A t \in Tasks :
            pc[t] /= "tok_msg" =>
                Len(HistoryOf(t)) = Cardinality(MessageEvents(produced[t])))

\* C20, amended: each event is handled as its kind requires, and every
\* message event has exactly one record in the history, but for the last
\* event of a task that is streaming its newline or was cancelled while it
\* did: that event has none.
C20_MessageEventsRecordedUnlessCancelled ==
    /\ EventHandling
    /\ [](\A t \in Tasks :
            Len(HistoryOf(t)) =
                Cardinality(MessageEvents(produced[t]))
                  - (IF pc[t] = "tok_msg" THEN 1 ELSE 0)
            \/ /\ pc[t] = "cancelled" /\ RecordPending(t)
               /\ Len(HistoryOf(t)) = Cardinality(MessageEvents(produced[t])) - 1)

\* C20 witness: a task has finished after a data event, a message event and
\* an event of neither kind: two tokens are out and one record is appended.
C20_Witness ==
    \E t \in Tasks :
        /\ pc[t] = "done"
        /\ Len(produced[t]) = 3
        /\ produced[t][1].kind = "data"
        /\ produced[t][2].kind = "message"
        /\ produced[t][3].kind = "other"
        /\ msg[t] = << EventText(t, 1), Newline >>
        /\ Len(HistoryOf(t)) = 1

\* The records of the history h that are the user record of task t
UserRecordsOf(h, t) == {i \in 1..Len(h) : h[i] = UserRecord(t)}

\* The task t has called agent.stream_async
StreamEntered(t) == pc[t] \notin {"none", "created", "send", "cancelled"}

\* C21: the question a generation task passes to the orchestrator agent is
\* the message content followed by the debug suffix when DEBUG is set, and
\* the message content alone when it is not; in both modes handle_message
\* appends the user record with the message content alone, once, in the
\* step that creates the task, before the task has run (its outbound
\* message is empty, no question is passed yet), and no record of the
\* history ever carries the suffix.
C21_DebugSuffixOnlyInQuery ==
    /\ [](\A t \in Tasks :
            /\ StreamEntered(t) => query[t] /= NoQuery
            /\ query[t] /= NoQuery =>
                  /\ DEBUG => query[t] = Question(t) \o DebugSuffix
                  /\ ~DEBUG => query[t] = Question(t)
            /\ Created(t) => Cardinality(UserRecordsOf(message_history, t)) = 1
            /\ pc[t] = "created" => (query[t] = NoQuery /\ msg[t] = << >>)
            /\ \A i \in 1..Len(message_history) :
                  message_history[i].content /= Question(t) \o DebugSuffix)
    /\ [][\A t \in Tasks :
            (pc[t] = "none" /\ pc'[t] /= "none") =>
                /\ pc'[t] = "created"
                /\ message_history' = Append(message_history, UserRecord(t))]_vars

\* C21 witness: with DEBUG set, a task passed its question with the suffix
\* to the agent and streamed to the end; the history holds its user record.
C21_Witness ==
    /\ DEBUG
    /\ \E t \in Tasks :
          /\ pc[t] = "done"
          /\ query[t] = Question(t) \o DebugSuffix
          /\ Len(msg[t]) > 0
          /\ UserRecordKept(message_history, t)

\* The step i was removed by the call-end of another call than the one that
\* created it: it is removed while its own call has had no call-end
RemovedByOtherCall(i) == steps[i].removed /\ ~steps[i].ended

\* C22: once a generation task has ended (its stream exhausted, failed or
\* cancelled) none of the steps its calls made visible is still visible,
\* and no step is removed by the call-end of a call that did not create it.
C22_StepsRemovedByOwnCall ==
    \A i \in 1..Len(steps) :
        /\ done(steps[i].task) => ~Live(i)
        /\ ~RemovedByOtherCall(i)

\* C22, the first half alone: no step outlives its task
C22_NoStepOutlivesTask ==
    \A i \in 1..Len(steps) : done(steps[i].task) => ~Live(i)

\* C22, the second half alone: a call-end removes its own call's step
C22_CallEndRemovesOwnStep ==
    \A i \in 1..Len(steps) : ~RemovedByOtherCall(i)

\* C23: a generation task that ends with a failure other than cancellation
\* makes the await in handle_message raise: the handler does not return,
\* while a cancelled or finished task makes it return; the failing step
\* leaves the history and the outbound message as they are, so the user
\* record stays; the task fails from the stream, never from or after the
\* await of msg.update(), and once failed it takes no further step.
C23_OnlyCancellationSwallowed ==
    /\ [](\A t \in Tasks :
            /\ pc[t] = "failed" =>
                  (handler[t] = "raised" /\ UserRecordKept(message_history, t))
            /\ pc[t] \in {"cancelled", "done"} => handler[t] = "returned"
            /\ handler[t] = "raised" => pc[t] = "failed")
    /\ [][\A t \in Tasks :
            /\ (pc'[t] = "failed" /\ pc[t] /= "failed") =>
                  /\ pc[t] \notin {"update", "done"}
                  /\ message_history' = message_history
                  /\ msg'[t] = msg[t]
            /\ pc[t] = "failed" =>
                  (pc'[t] = "failed" /\ msg'[t] = msg[t] /\ handler'[t] = "raised")]_vars

\* C23 witness: the stream of a task raised after a data event and a message
\* event; the handler raised, the task's tokens, record and user record stay.
C23_Witness ==
    \E t \in Tasks :
        /\ pc[t] = "failed" /\ handler[t] = "raised"
        /\ Len(msg[t]) = 2 /\ Len(HistoryOf(t)) = 1
        /\ UserRecordKept(message_history, t)

\* A call of get_logistics_route_analysis has returned
RouteCallReturned ==
    leaf_call.tool = "get_logistics_route_analysis" /\ leaf_call.raised = ""

\* The records of the dataset that call analysed
RouteCallRecords ==
    LET a == leaf_call.args IN
    get_logistics_data(a.from_date, a.to_date, a.origins, a.destinations,
                       a.hours_per_day, a.draws).value.records

\* What the same call returns with the given sort_by and top
RouteCallWith(sort_by, top) ==
    LET a == leaf_call.args IN
    get_logistics_route_analysis(a.from_date, a.to_date, a.origins, a.destinations,
                                 a.hours_per_day, sort_by, top, a.draws).value

\* The sort key in effect for a sort_by argument
KeyInEffect(sort_by) == IF sort_by \in SortKeys THEN sort_by ELSE "delay_rate"

\* The records of recs on the route of the entry d
OnRoute(recs, d) == {i \in 1..Len(recs) : RouteKey(recs[i]) = d.route}

\* C24: with every route asked for, get_logistics_route_analysis returns
\* one entry per "origin->destination" text of the dataset's records, whose
\* shipments is the number of records of that text, so that the shipments
\* sum to the number of records; a sort_by outside the three keys gives
\* what delay_rate gives; the entries are in non-increasing order of the
\* key in effect; and for top >= 0 the result has at most top entries, the
\* first top of that order.
C24_RouteAnalysis ==
    RouteCallReturned =>
        LET a == leaf_call.args
            out == leaf_call.value
            recs == RouteCallRecords
            by == KeyInEffect(a.sort_by)
            all == RouteCallWith(a.sort_by, Len(recs))
            n == IF a.top < Len(all) THEN a.top ELSE Len(all)
        IN /\ \A i, j \in 1..Len(all) :
                 i /= j => OnRoute(recs, all[i]) \cap OnRoute(recs, all[j]) = {}
           /\ \A i \in 1..Len(all) :
                 /\ all[i].shipments = Cardinality(OnRoute(recs, all[i]))
                 /\ all[i].shipments > 0
           /\ Sum([i \in 1..Len(all) |-> all[i].shipments]) = Len(recs)
           /\ out = RouteCallWith(by, a.top)
           /\ \A i, j \in 1..Len(all) :
                 i < j => SortKey(all[i], by) >= SortKey(all[j], by)
           /\ a.top >= 0 => (Len(out) <= a.top /\ out = SubSeq(all, 1, n))

\* C24 witness: a call with sort_by "shipments" and top 1 over a dataset
\* with routes of different delay rates returned the one entry with the
\* highest delay rate, which is not the route of the first record.
C24_Witness ==
    /\ RouteCallReturned
    /\ leaf_call.args.sort_by = "shipments" /\ leaf_call.args.top = 1
    /\ Len(leaf_call.value) = 1
    /\ LET all == RouteCallWith("delay_rate", DefaultTop)
           recs == RouteCallRecords
       IN /\ Len(all) >= 3
          /\ all[1].delay_rate > all[Len(all)].delay_rate
          /\ leaf_call.value[1] = all[1]
          /\ 1 \notin OnRoute(recs, all[1])

\* The shift of an hour of the day: A for 06-13, M for 14-21, N for 22-05
ShiftOfHour(hour) ==
    IF hour \in 6..13 THEN "A" ELSE IF hour \in 14..21 THEN "M" ELSE "N"

\* The records of seq whose shift is s
InShift(seq, s) == {i \in 1..Len(seq) : seq[i].shift = s}

\* C25: from_hour gives every hour 0..23 the shift of the table; a record
\* the ProductionData constructor returns has its timestamp at the start of
\* the hour and the shift of that hour, whatever shift was passed, and so
\* has every record of a production dataset; synthetic_day returns 24
\* records, the i-th at hour i - 1 of the given day, 8 in each shift.
C25_ShiftFollowsHour ==
    /\ \A hour \in 0..23 : from_hour(hour) = ShiftOfHour(hour)
    /\ (leaf_call.tool = "ProductionData" /\ leaf_call.raised = "") =>
          /\ leaf_call.value.timestamp =
                << leaf_call.args.timestamp[1], leaf_call.args.timestamp[2], 0 >>
          /\ leaf_call.value.shift = ShiftOfHour(leaf_call.args.timestamp[2])
    /\ (leaf_call.tool = "get_production_data" /\ leaf_call.raised = "") =>
          \A i \in 1..Len(leaf_call.value.records) :
              LET r == leaf_call.value.records[i] IN
              r.shift = ShiftOfHour(r.timestamp[2])
    /\ leaf_call.tool = "synthetic_day" =>
          LET recs == leaf_call.value IN
          /\ Len(recs) = 24
          /\ \A i \in 1..Len(recs) :
                /\ recs[i].timestamp = << leaf_call.args.day[1], i - 1, 0 >>
                /\ recs[i].shift = ShiftOfHour(i - 1)
          /\ \A s \in Shifts : Cardinality(InShift(recs, s)) = 8

\* C25 witness: the constructor was given 14:30 with shift A and returned a
\* record at 14:00 with shift M.
C25_Witness ==
    /\ leaf_call.tool = "ProductionData"
    /\ leaf_call.args.timestamp[2] = 14 /\ leaf_call.args.timestamp[3] = 30
    /\ leaf_call.args.shift = "A"
    /\ leaf_call.raised = ""
    /\ leaf_call.value.shift = "M"
    /\ leaf_call.value.timestamp[3] = 0

====
